---- MODULE Spec2Model ----
(***************************************************************************)
(* Cycle-accurate model of BooleanAtlas10Ops (src/top.py), the controller  *)
(* that bins, for every K-subset of N nibbles and every combination of the *)
(* 10 boolean operators, the operator result into a 16-bin histogram RAM,  *)
(* together with the test bench and the brute-force reference of           *)
(* src/sim.py and the packing helpers of src/utils.py.                     *)
(*                                                                         *)
(* One Tick action per FSM state; every Tick also steps the two memory     *)
(* ports (the registered write port and the synchronous read port).  The   *)
(* input signals start, data_in and rd_addr are variables that the         *)
(* environment actions change between clock edges.                         *)
(***************************************************************************)
EXTENDS Integers, Sequences, FiniteSets, TLC

\* ------------------------------------------------------------------ bounds
\* largest number of nibbles of the configurations explored
MaxN == 4
\* number of runs (IDLE -> DONE cycles) the environment starts
MaxRuns == 2
\* the same two bounds under the unconstrained environment
MaxNFree == 3
MaxRunsFree == 1
\* the same two bounds for the read-back environment (rd_addr over all 16 bins)
MaxNRead == 3
MaxRunsRead == 1
\* the same two bounds for the enumerator runs (one all-zero data word)
MaxNEnum == 7
MaxRunsEnum == 1
\* number of runs started on each word of the operator runs
MaxRunsOps == 1
\* narrow counters: largest count_width, largest N and number of runs
MaxCW == 3
MaxNWrap == 3
MaxRunsWrap == 1

\* ------------------------------------------------------- program constants
OP_AND == 0
OP_OR == 1
OP_IMPLY == 2
OP_CONV == 3
OP_XOR == 4
OP_XNOR == 5
OP_NAND == 6
OP_NOR == 7
OP_NIMPLY == 8
OP_INV == 9
\* count_width of the device under test built by run_case
SimCW == 32
\* depth of the histogram RAM
Depth == 16

\* hex strings the test bench is run on, as character sequences; a run on n
\* nibbles takes the first n characters ("A1F3" is run_case's own vector)
TestHex == { <<"A", "1", "F", "3", "C", "0", "5">>,
             <<"3", "3", "3", "3", "3", "3", "3">>,
             <<"C", "3", "C", "3", "C", "3", "C">>,
             <<"0", "F", "5", "A", "9", "6", "E">> }
\* the strings whose packed values the unconstrained environment drives on data_in
FreeHex == { <<"A", "1", "F", "3", "C", "0", "5">>,
             <<"C", "3", "C", "3", "C", "3", "C">> }
\* addresses the environment drives on rd_addr
RdAddrVals == {0, 15}
\* addresses run_case reads back: for addr in range(16)
ReadAddrs == 0..(Depth - 1)

VARIABLES
  N, K, CW,            \* constructor parameters
  nibbles,             \* the test bench's nibble list
  runCap,              \* number of runs the test bench starts
  start, data_in, rd_addr,                       \* input signals
  fsm, busy, done,                               \* FSM state, control regs
  wr_en, wr_addr, wr_data,                       \* write port registers
  use_internal_read, int_rd_addr, rd_data,       \* read mux, read port output
  mem,                                           \* histogram RAM
  mask, scan_i, sel_count, sel0, sel1, sel2,     \* enumerator, selector
  op1, op2, bin_val, clr_idx,
  runs, cyc, visited, snap, nupd, startBusy, heldDone,
  prevBin, streakLen, streakBase                 \* history of the run

params == <<N, K, CW, nibbles, runCap>>
inputs == <<start, data_in, rd_addr>>
ctl == <<busy, done>>
wrport == <<wr_en, wr_addr, wr_data>>
rdmux == <<use_internal_read, int_rd_addr>>
enum == <<mask, scan_i, sel_count>>
sel == <<sel0, sel1, sel2>>
ops == <<op1, op2>>
hist == <<runs, cyc, visited, snap, nupd, startBusy, heldDone, prevBin, streakLen,
          streakBase>>
vars == <<params, inputs, fsm, ctl, wrport, rdmux, rd_data, mem, enum, sel, ops,
          bin_val, clr_idx, hist>>

\* ------------------------------------------------------ bit-vector helpers
Bit(x, i) == (x \div (2 ^ i)) % 2

RECURSIVE BitAnd(_, _, _)
BitAnd(a, b, w) ==
  IF w = 0 THEN 0
  ELSE ((a % 2) * (b % 2)) + (2 * BitAnd(a \div 2, b \div 2, w - 1))

RECURSIVE BitOr(_, _, _)
BitOr(a, b, w) ==
  IF w = 0 THEN 0
  ELSE (IF (a % 2) + (b % 2) > 0 THEN 1 ELSE 0) + (2 * BitOr(a \div 2, b \div 2, w - 1))

RECURSIVE BitXor(_, _, _)
BitXor(a, b, w) ==
  IF w = 0 THEN 0
  ELSE (((a % 2) + (b % 2)) % 2) + (2 * BitXor(a \div 2, b \div 2, w - 1))

\* ~x of an unsigned w-bit value
BitNot(a, w) == (2 ^ w) - 1 - a

\* the low w bits of x, computed bit by bit (w may be the full counter width)
RECURSIVE Trunc(_, _)
Trunc(x, w) == IF w = 0 \/ x = 0 THEN 0 ELSE (x % 2) + (2 * Trunc(x \div 2, w - 1))

RECURSIVE PopCount(_)
PopCount(x) == IF x = 0 THEN 0 ELSE (x % 2) + PopCount(x \div 2)

\* bits_for(n): width of Signal(range(n + 1))
RECURSIVE BitsFor(_)
BitsFor(n) == IF n < 2 THEN 1 ELSE 1 + BitsFor(n \div 2)

RECURSIVE Binom(_, _)
Binom(n, k) ==
  IF k = 0 THEN 1 ELSE IF n < k THEN 0 ELSE Binom(n - 1, k - 1) + Binom(n - 1, k)

RECURSIVE SumTo(_, _)
SumTo(f, n) == IF n < 0 THEN 0 ELSE f[n] + SumTo(f, n - 1)

ZeroHist == [a \in 0..(Depth - 1) |-> 0]

\* ------------------------------------------------------------ src/utils.py
\* int(ch, 16) of one character
HexDigit(ch) ==
  CASE ch = "0" -> 0 [] ch = "1" -> 1 [] ch = "2" -> 2 [] ch = "3" -> 3
    [] ch = "4" -> 4 [] ch = "5" -> 5 [] ch = "6" -> 6 [] ch = "7" -> 7
    [] ch = "8" -> 8 [] ch = "9" -> 9 [] ch = "A" -> 10 [] ch = "B" -> 11
    [] ch = "C" -> 12 [] ch = "D" -> 13 [] ch = "E" -> 14 [] ch = "F" -> 15

\* rightmost hex digit first
hex_to_nibbles_le(hex_str) ==
  [i \in 1..Len(hex_str) |-> HexDigit(hex_str[Len(hex_str) + 1 - i])]

RECURSIVE pack_nibbles_le(_)
pack_nibbles_le(s) ==
  IF s = <<>> THEN 0
  ELSE BitOr(BitAnd(Head(s), 15, 4), 16 * pack_nibbles_le(Tail(s)), 4 * Len(s))

\* -------------------------------------------------------------- src/sim.py
\* Python's ~x on an int, masked with 0xF
PyInv4(x) == (0 - x - 1) % 16

PyOp(o, a, b) ==
  CASE o = 0 -> BitAnd(a, b, 4)
    [] o = 1 -> BitOr(a, b, 4)
    [] o = 2 -> BitOr(PyInv4(a), b, 4)
    [] o = 3 -> BitOr(PyInv4(b), a, 4)
    [] o = 4 -> BitXor(a, b, 4)
    [] o = 5 -> PyInv4(BitXor(a, b, 4))
    [] o = 6 -> PyInv4(BitAnd(a, b, 4))
    [] o = 7 -> PyInv4(BitOr(a, b, 4))
    [] o = 8 -> BitAnd(BitAnd(a, PyInv4(b), 4), 15, 4)
    [] o = 9 -> BitAnd(BitAnd(b, PyInv4(a), 4), 15, 4)

OPS == 0..9

python_pol2_hist(nib) ==
  [h \in 0..15 |->
     Cardinality({t \in (1..Len(nib)) \X (1..Len(nib)) \X OPS :
                    /\ t[1] < t[2]
                    /\ PyOp(t[3], nib[t[1]], nib[t[2]]) = h})]

python_pol3_hist(nib) ==
  [h \in 0..15 |->
     Cardinality({t \in (1..Len(nib)) \X (1..Len(nib)) \X (1..Len(nib)) \X OPS \X OPS :
                    /\ t[1] < t[2]
                    /\ t[2] < t[3]
                    /\ PyOp(t[5], PyOp(t[4], nib[t[1]], nib[t[2]]), nib[t[3]]) = h})]

\* the reference run_case compares against
ref(nib, k) == IF k = 2 THEN python_pol2_hist(nib) ELSE python_pol3_hist(nib)

\* -------------------------------------------------------------- src/top.py
\* ApplyOp with a fault: the NOR case inverts a & b
ApplyOp_NorAsNand(op_sel, a, b) ==
  CASE op_sel = OP_AND -> BitAnd(a, b, 4)
    [] op_sel = OP_OR -> BitOr(a, b, 4)
    [] op_sel = OP_IMPLY -> BitOr(BitNot(a, 4), b, 4)
    [] op_sel = OP_CONV -> BitOr(BitNot(b, 4), a, 4)
    [] op_sel = OP_XOR -> BitXor(a, b, 4)
    [] op_sel = OP_XNOR -> BitNot(BitXor(a, b, 4), 4)
    [] op_sel = OP_NAND -> BitNot(BitAnd(a, b, 4), 4)
    [] op_sel = OP_NOR -> BitNot(BitAnd(a, b, 4), 4)
    [] op_sel = OP_NIMPLY -> BitAnd(a, BitNot(b, 4), 4)
    [] op_sel = OP_INV -> BitAnd(b, BitNot(a, 4), 4)
    [] OTHER -> BitXor(a, b, 4)

\* _apply_op: the combinational operator switch on 4-bit values
ApplyOp(op_sel, a, b) ==
  CASE op_sel = OP_AND -> BitAnd(a, b, 4)
    [] op_sel = OP_OR -> BitOr(a, b, 4)
    [] op_sel = OP_IMPLY -> BitOr(BitNot(a, 4), b, 4)
    [] op_sel = OP_CONV -> BitOr(BitNot(b, 4), a, 4)
    [] op_sel = OP_XOR -> BitXor(a, b, 4)
    [] op_sel = OP_XNOR -> BitNot(BitXor(a, b, 4), 4)
    [] op_sel = OP_NAND -> BitNot(BitAnd(a, b, 4), 4)
    [] op_sel = OP_NOR -> BitNot(BitOr(a, b, 4), 4)
    [] op_sel = OP_NIMPLY -> BitAnd(a, BitNot(b, 4), 4)
    [] op_sel = OP_INV -> BitAnd(b, BitNot(a, 4), 4)
    [] OTHER -> BitXor(a, b, 4)

\* nibbles[i] = data_in[4*i:4*i+4]; nibbles[scan_i] selects the slice the
\* register scan_i addresses
nibbles_slice(i) == (data_in \div (16 ^ i)) % 16

\* rd_port_addr with a fault: the read port always takes the external address
rd_port_addr_External == rd_addr

\* rd_port_addr with a fault: the read port always takes the internal address
rd_port_addr_Internal == int_rd_addr

\* rd.addr = Mux(use_internal_read, int_rd_addr, rd_addr)
rd_port_addr == IF use_internal_read = 1 THEN int_rd_addr ELSE rd_addr

init_mask == (2 ^ K) - 1
\* ((1 << K) - 1) << (N - K); Python raises ValueError on a negative shift count
shift_ok == N - K >= 0
last_mask == ((2 ^ K) - 1) * (2 ^ (N - K))

neg_mask == (BitNot(mask, N) + 1) % (2 ^ N)
c == BitAnd(mask, neg_mask, N)
r == (mask + c) % (2 ^ (N + 1))
x_xor_r == BitXor(r, mask, N + 1)
tz == IF \E i \in 0..(N - 1) : c = 2 ^ i
      THEN CHOOSE i \in 0..(N - 1) : c = 2 ^ i
      ELSE 0
\* temp with a fault: x_xor_r is shifted by 1 instead of 2
temp_ShiftByOne == x_xor_r \div 2

temp == x_xor_r \div 4
next_mask == BitOr(temp \div (2 ^ tz), r, N + 1) % (2 ^ N)
is_last == mask = last_mask

t1 == ApplyOp(op1, sel0, sel1)
\* t2 with a fault: the operands of the second operator are swapped
t2_SwappedOperands == ApplyOp(op2, sel2, t1)

t2 == ApplyOp(op2, t1, sel2)
final_res == IF K = 2 THEN t1 ELSE t2

BusyStates == {"CLEAR_INIT", "CLEAR_STEP", "INIT_ENUM", "SCAN_SELECT", "DO_ONE_RESULT",
               "HIST_READ", "HIST_WRITE", "ADVANCE", "NEXT_SUBSET"}

\* the two memory ports at a clock edge: the write port commits its registered
\* request; the synchronous read port (transparent, the default of read_port)
\* latches the addressed word, a word written at the same edge included
MemPorts ==
  /\ mem' = IF wr_en = 1 THEN [mem EXCEPT ![wr_addr] = wr_data] ELSE mem
  /\ rd_data' = mem'[rd_port_addr]

\* ----------------------------------------------------------- construction
\* the nibble lists run_case decodes, and the packed values of the free inputs
NibbleLists(n) == {hex_to_nibbles_le(SubSeq(w, 1, n)) : w \in TestHex}
\* the nibble list of the all-zero hex string of n digits
ZeroList(n) == hex_to_nibbles_le([i \in 1..n |-> "0"])
FreeLists(n) == {hex_to_nibbles_le(SubSeq(w, 1, n)) : w \in FreeHex}
DataTable == [n \in 1..7 |-> {pack_nibbles_le(s) : s \in FreeLists(n)}]
DataVals(n) == DataTable[n]

\* the state after BooleanAtlas10Ops(n_nibbles, k, count_width), before elaborate()
Construct(n, k, cw, nib, cap) ==
  /\ N = n /\ K = k /\ CW = cw
  /\ nibbles = nib
  /\ runCap = cap
  /\ data_in = pack_nibbles_le(nib)
  /\ start = 0 /\ rd_addr = 0
  /\ fsm = "NEW"
  /\ busy = 0 /\ done = 0
  /\ wr_en = 0 /\ wr_addr = 0 /\ wr_data = 0
  /\ use_internal_read = 0 /\ int_rd_addr = 0 /\ rd_data = 0
  /\ mem = ZeroHist
  /\ mask = 0 /\ scan_i = 0 /\ sel_count = 0
  /\ sel0 = 0 /\ sel1 = 0 /\ sel2 = 0
  /\ op1 = 0 /\ op2 = 0 /\ bin_val = 0 /\ clr_idx = 0
  /\ runs = 0 /\ cyc = 0 /\ visited = <<>> /\ snap = <<>> /\ nupd = 0
  /\ startBusy = FALSE /\ heldDone = FALSE
  /\ prevBin = Depth /\ streakLen = 0 /\ streakBase = 0

\* elaborate(): the static part; last_mask needs N - K >= 0
Elaborate ==
  /\ fsm = "NEW"
  /\ fsm' = IF shift_ok THEN "IDLE" ELSE "ValueError"
  /\ UNCHANGED <<params, inputs, ctl, wrport, rdmux, rd_data, mem, enum, sel, ops,
                 bin_val, clr_idx, hist>>

\* ------------------------------------------------------------ FSM atlas10
Idle ==
  /\ fsm = "IDLE"
  /\ busy' = 0 /\ done' = 0 /\ wr_en' = 0 /\ use_internal_read' = 0
  /\ IF start = 1
     THEN /\ fsm' = "CLEAR_INIT"
          /\ runs' = runs + 1 /\ cyc' = 0 /\ nupd' = 0
          /\ startBusy' = FALSE
          /\ prevBin' = Depth /\ streakLen' = 0 /\ streakBase' = 0
     ELSE /\ fsm' = fsm
          /\ UNCHANGED <<runs, cyc, nupd, startBusy, prevBin, streakLen, streakBase>>
  /\ MemPorts
  /\ UNCHANGED <<params, inputs, wr_addr, wr_data, int_rd_addr, enum, sel, ops,
                 bin_val, clr_idx, visited, snap, heldDone>>

\* ClearInit with a fault: busy is not raised
ClearInit_NoBusy ==
  /\ fsm = "CLEAR_INIT"
  /\ clr_idx' = 0
  /\ fsm' = "CLEAR_STEP"
  /\ MemPorts
  /\ cyc' = cyc + 1 /\ heldDone' = FALSE
  /\ UNCHANGED <<params, inputs, ctl, wrport, rdmux, enum, sel, ops, bin_val,
                 runs, visited, snap, nupd, startBusy, prevBin, streakLen, streakBase>>

ClearInit ==
  /\ fsm = "CLEAR_INIT"
  /\ busy' = 1 /\ clr_idx' = 0
  /\ fsm' = "CLEAR_STEP"
  /\ MemPorts
  /\ cyc' = cyc + 1 /\ heldDone' = FALSE
  /\ UNCHANGED <<params, inputs, done, wrport, rdmux, enum, sel, ops, bin_val,
                 runs, visited, snap, nupd, startBusy, prevBin, streakLen, streakBase>>

\* ClearStep with a fault: the exit test compares the 4-bit clr_idx with 16, so the
\* clear loop wraps and never exits (the cycle count is left alone in the loop)
ClearStep_NeverExits ==
  /\ fsm = "CLEAR_STEP"
  /\ wr_addr' = clr_idx /\ wr_data' = 0
  /\ wr_en' = 1 /\ fsm' = fsm /\ clr_idx' = (clr_idx + 1) % 16
  /\ MemPorts
  /\ UNCHANGED <<params, inputs, ctl, rdmux, enum, sel, ops, bin_val, hist>>

ClearStep ==
  /\ fsm = "CLEAR_STEP"
  /\ wr_addr' = clr_idx /\ wr_data' = 0
  /\ IF clr_idx = 15
     THEN wr_en' = 0 /\ fsm' = "INIT_ENUM" /\ clr_idx' = clr_idx
     ELSE wr_en' = 1 /\ fsm' = fsm /\ clr_idx' = (clr_idx + 1) % 16
  /\ MemPorts
  /\ cyc' = cyc + 1
  /\ UNCHANGED <<params, inputs, ctl, rdmux, enum, sel, ops, bin_val,
                 runs, visited, snap, nupd, startBusy, heldDone, prevBin, streakLen,
                 streakBase>>

InitEnum ==
  /\ fsm = "INIT_ENUM"
  /\ mask' = init_mask /\ scan_i' = 0 /\ sel_count' = 0
  /\ op1' = 0 /\ op2' = 0
  /\ fsm' = "SCAN_SELECT"
  /\ MemPorts
  /\ cyc' = cyc + 1 /\ visited' = <<init_mask>>
  /\ UNCHANGED <<params, inputs, ctl, wrport, rdmux, sel, bin_val, clr_idx,
                 runs, snap, nupd, startBusy, heldDone, prevBin, streakLen,
                 streakBase>>

\* ScanSelect with a fault: the operator indices are not reset when the scan ends
ScanSelect_KeepsOps ==
  /\ fsm = "SCAN_SELECT"
  /\ IF scan_i < N
     THEN /\ IF Bit(mask, scan_i) = 1
             THEN /\ sel0' = IF sel_count = 0 THEN nibbles_slice(scan_i) ELSE sel0
                  /\ sel1' = IF sel_count = 1 THEN nibbles_slice(scan_i) ELSE sel1
                  /\ sel2' = IF sel_count \notin {0, 1} THEN nibbles_slice(scan_i) ELSE sel2
                  /\ sel_count' = (sel_count + 1) % 4
             ELSE UNCHANGED <<sel, sel_count>>
          /\ scan_i' = (scan_i + 1) % (2 ^ BitsFor(N))
          /\ fsm' = fsm
          /\ UNCHANGED ops
     ELSE /\ fsm' = "DO_ONE_RESULT"
          /\ UNCHANGED <<sel, sel_count, scan_i, ops>>
  /\ MemPorts
  /\ cyc' = cyc + 1
  /\ UNCHANGED <<params, inputs, ctl, wrport, rdmux, mask, bin_val, clr_idx,
                 runs, visited, snap, nupd, startBusy, heldDone, prevBin, streakLen,
                 streakBase>>

ScanSelect ==
  /\ fsm = "SCAN_SELECT"
  /\ IF scan_i < N
     THEN /\ IF Bit(mask, scan_i) = 1
             THEN /\ sel0' = IF sel_count = 0 THEN nibbles_slice(scan_i) ELSE sel0
                  /\ sel1' = IF sel_count = 1 THEN nibbles_slice(scan_i) ELSE sel1
                  /\ sel2' = IF sel_count \notin {0, 1} THEN nibbles_slice(scan_i) ELSE sel2
                  /\ sel_count' = (sel_count + 1) % 4
             ELSE UNCHANGED <<sel, sel_count>>
          /\ scan_i' = (scan_i + 1) % (2 ^ BitsFor(N))
          /\ fsm' = fsm
          /\ UNCHANGED ops
     ELSE /\ op1' = 0 /\ op2' = 0
          /\ fsm' = "DO_ONE_RESULT"
          /\ UNCHANGED <<sel, sel_count, scan_i>>
  /\ MemPorts
  /\ cyc' = cyc + 1
  /\ UNCHANGED <<params, inputs, ctl, wrport, rdmux, mask, bin_val, clr_idx,
                 runs, visited, snap, nupd, startBusy, heldDone, prevBin, streakLen,
                 streakBase>>

\* DoOneResult with a fault: the read mux is not switched to the internal address
DoOneResult_NoInternalRead ==
  /\ fsm = "DO_ONE_RESULT"
  /\ bin_val' = final_res
  /\ use_internal_read' = use_internal_read
  /\ int_rd_addr' = final_res
  /\ fsm' = "HIST_READ"
  /\ MemPorts
  /\ cyc' = cyc + 1
  /\ UNCHANGED <<params, inputs, ctl, wrport, enum, sel, ops, clr_idx,
                 runs, visited, snap, nupd, startBusy, heldDone, prevBin, streakLen,
                 streakBase>>

DoOneResult ==
  /\ fsm = "DO_ONE_RESULT"
  /\ bin_val' = final_res
  /\ use_internal_read' = 1
  /\ int_rd_addr' = final_res
  /\ fsm' = "HIST_READ"
  /\ MemPorts
  /\ cyc' = cyc + 1
  /\ UNCHANGED <<params, inputs, ctl, wrport, enum, sel, ops, clr_idx,
                 runs, visited, snap, nupd, startBusy, heldDone, prevBin, streakLen,
                 streakBase>>

\* HistRead with a fault: the wait state also waits for start to be low
HistRead_WaitsOnStart ==
  /\ fsm = "HIST_READ"
  /\ fsm' = IF start = 1 THEN fsm ELSE "HIST_WRITE"
  /\ MemPorts
  /\ cyc' = cyc + 1
  /\ UNCHANGED <<params, inputs, ctl, wrport, rdmux, enum, sel, ops, bin_val, clr_idx,
                 runs, visited, snap, nupd, startBusy, heldDone, prevBin, streakLen,
                 streakBase>>

HistRead ==
  /\ fsm = "HIST_READ"
  /\ fsm' = "HIST_WRITE"
  /\ MemPorts
  /\ cyc' = cyc + 1
  /\ UNCHANGED <<params, inputs, ctl, wrport, rdmux, enum, sel, ops, bin_val, clr_idx,
                 runs, visited, snap, nupd, startBusy, heldDone, prevBin, streakLen,
                 streakBase>>

\* HistWrite with a fault: the counter saturates at its largest value
HistWrite_Saturates ==
  /\ fsm = "HIST_WRITE"
  /\ wr_en' = 1
  /\ wr_addr' = bin_val
  /\ wr_data' = IF Trunc(rd_data + 1, CW) = 0 THEN rd_data ELSE rd_data + 1
  /\ fsm' = "ADVANCE"
  /\ MemPorts
  /\ cyc' = cyc + 1
  /\ UNCHANGED <<params, inputs, ctl, rdmux, enum, sel, ops, bin_val, clr_idx,
                 runs, visited, snap, nupd, startBusy, heldDone, prevBin, streakLen,
                 streakBase>>

HistWrite ==
  /\ fsm = "HIST_WRITE"
  /\ wr_en' = 1
  /\ wr_addr' = bin_val
  /\ wr_data' = Trunc(rd_data + 1, CW)
  /\ fsm' = "ADVANCE"
  /\ MemPorts
  /\ cyc' = cyc + 1
  /\ UNCHANGED <<params, inputs, ctl, rdmux, enum, sel, ops, bin_val, clr_idx,
                 runs, visited, snap, nupd, startBusy, heldDone, prevBin, streakLen,
                 streakBase>>

\* Advance with a fault: for K = 2 the sweep ends at op1 = 10 instead of 9
Advance_SweepsToTen ==
  /\ fsm = "ADVANCE"
  /\ wr_en' = 0
  /\ use_internal_read' = 0
  /\ IF K = 2
     THEN IF op1 = 10
          THEN fsm' = "NEXT_SUBSET" /\ UNCHANGED ops
          ELSE op1' = (op1 + 1) % 16 /\ fsm' = "DO_ONE_RESULT" /\ UNCHANGED op2
     ELSE IF op2 = 9
          THEN IF op1 = 9
               THEN fsm' = "NEXT_SUBSET" /\ UNCHANGED ops
               ELSE op1' = (op1 + 1) % 16 /\ op2' = 0 /\ fsm' = "DO_ONE_RESULT"
          ELSE op2' = (op2 + 1) % 16 /\ fsm' = "DO_ONE_RESULT" /\ UNCHANGED op1
  /\ MemPorts
  /\ cyc' = cyc + 1 /\ nupd' = nupd + 1
  /\ prevBin' = wr_addr
  /\ streakLen' = IF wr_addr = prevBin THEN streakLen + 1 ELSE 1
  /\ streakBase' = IF wr_addr = prevBin THEN streakBase ELSE mem[wr_addr]
  /\ UNCHANGED <<params, inputs, ctl, wr_addr, wr_data, int_rd_addr, enum, sel,
                 bin_val, clr_idx, runs, visited, snap, startBusy, heldDone>>

\* Advance with a fault: the write enable is left set after the update
Advance_KeepsWrEn ==
  /\ fsm = "ADVANCE"
  /\ wr_en' = wr_en
  /\ use_internal_read' = 0
  /\ IF K = 2
     THEN IF op1 = 9
          THEN fsm' = "NEXT_SUBSET" /\ UNCHANGED ops
          ELSE op1' = (op1 + 1) % 16 /\ fsm' = "DO_ONE_RESULT" /\ UNCHANGED op2
     ELSE IF op2 = 9
          THEN IF op1 = 9
               THEN fsm' = "NEXT_SUBSET" /\ UNCHANGED ops
               ELSE op1' = (op1 + 1) % 16 /\ op2' = 0 /\ fsm' = "DO_ONE_RESULT"
          ELSE op2' = (op2 + 1) % 16 /\ fsm' = "DO_ONE_RESULT" /\ UNCHANGED op1
  /\ MemPorts
  /\ cyc' = cyc + 1 /\ nupd' = nupd + 1
  /\ prevBin' = wr_addr
  /\ streakLen' = IF wr_addr = prevBin THEN streakLen + 1 ELSE 1
  /\ streakBase' = IF wr_addr = prevBin THEN streakBase ELSE mem[wr_addr]
  /\ UNCHANGED <<params, inputs, ctl, wr_addr, wr_data, int_rd_addr, enum, sel,
                 bin_val, clr_idx, runs, visited, snap, startBusy, heldDone>>

Advance ==
  /\ fsm = "ADVANCE"
  /\ wr_en' = 0
  /\ use_internal_read' = 0
  /\ IF K = 2
     THEN IF op1 = 9
          THEN fsm' = "NEXT_SUBSET" /\ UNCHANGED ops
          ELSE op1' = (op1 + 1) % 16 /\ fsm' = "DO_ONE_RESULT" /\ UNCHANGED op2
     ELSE IF op2 = 9
          THEN IF op1 = 9
               THEN fsm' = "NEXT_SUBSET" /\ UNCHANGED ops
               ELSE op1' = (op1 + 1) % 16 /\ op2' = 0 /\ fsm' = "DO_ONE_RESULT"
          ELSE op2' = (op2 + 1) % 16 /\ fsm' = "DO_ONE_RESULT" /\ UNCHANGED op1
  /\ MemPorts
  /\ cyc' = cyc + 1 /\ nupd' = nupd + 1
  /\ prevBin' = wr_addr
  /\ streakLen' = IF wr_addr = prevBin THEN streakLen + 1 ELSE 1
  /\ streakBase' = IF wr_addr = prevBin THEN streakBase ELSE mem[wr_addr]
  /\ UNCHANGED <<params, inputs, ctl, wr_addr, wr_data, int_rd_addr, enum, sel,
                 bin_val, clr_idx, runs, visited, snap, startBusy, heldDone>>

\* NextSubset with a fault: sel_count is not reset for the next subset
NextSubset_KeepsSelCount ==
  /\ fsm = "NEXT_SUBSET"
  /\ MemPorts
  /\ IF is_last
     THEN /\ busy' = 0 /\ done' = 1
          /\ fsm' = "DONE"
          /\ snap' = Append(snap, mem')
          /\ UNCHANGED <<enum, visited>>
     ELSE /\ mask' = next_mask /\ scan_i' = 0 /\ sel_count' = sel_count
          /\ fsm' = "SCAN_SELECT"
          /\ visited' = Append(visited, next_mask)
          /\ UNCHANGED <<ctl, snap>>
  /\ cyc' = cyc + 1
  /\ UNCHANGED <<params, inputs, wrport, rdmux, sel, ops, bin_val, clr_idx,
                 runs, nupd, startBusy, heldDone, prevBin, streakLen,
                 streakBase>>

NextSubset ==
  /\ fsm = "NEXT_SUBSET"
  /\ MemPorts
  /\ IF is_last
     THEN /\ busy' = 0 /\ done' = 1
          /\ fsm' = "DONE"
          /\ snap' = Append(snap, mem')
          /\ UNCHANGED <<enum, visited>>
     ELSE /\ mask' = next_mask /\ scan_i' = 0 /\ sel_count' = 0
          /\ fsm' = "SCAN_SELECT"
          /\ visited' = Append(visited, next_mask)
          /\ UNCHANGED <<ctl, snap>>
  /\ cyc' = cyc + 1
  /\ UNCHANGED <<params, inputs, wrport, rdmux, sel, ops, bin_val, clr_idx,
                 runs, nupd, startBusy, heldDone, prevBin, streakLen,
                 streakBase>>

\* Done with a fault: DONE returns to IDLE without looking at start
Done_IgnoresStart ==
  /\ fsm = "DONE"
  /\ fsm' = "IDLE"
  /\ MemPorts
  /\ heldDone' = (heldDone \/ start = 1)
  /\ UNCHANGED <<params, inputs, ctl, wrport, rdmux, enum, sel, ops, bin_val, clr_idx,
                 runs, cyc, visited, snap, nupd, startBusy, prevBin, streakLen,
                 streakBase>>

Done ==
  /\ fsm = "DONE"
  /\ fsm' = IF start = 0 THEN "IDLE" ELSE fsm
  /\ MemPorts
  /\ heldDone' = (heldDone \/ start = 1)
  /\ UNCHANGED <<params, inputs, ctl, wrport, rdmux, enum, sel, ops, bin_val, clr_idx,
                 runs, cyc, visited, snap, nupd, startBusy, prevBin, streakLen,
                 streakBase>>

\* one clock edge
Tick ==
  \/ Idle
  \/ ClearInit
  \/ ClearStep
  \/ InitEnum
  \/ ScanSelect
  \/ DoOneResult
  \/ HistRead
  \/ HistWrite
  \/ Advance
  \/ NextSubset
  \/ Done

\* ------------------------------------------------------------ environment
Built == fsm \notin {"NEW", "ValueError"}

\* the test bench drives start; it begins at most MaxRuns runs
SetStart(s) ==
  /\ Built
  /\ s # start
  /\ (s = 1 /\ fsm = "IDLE") => runs < runCap
  /\ start' = s
  /\ startBusy' = (startBusy \/ (s = 1 /\ fsm \in BusyStates))
  /\ UNCHANGED <<params, data_in, rd_addr, fsm, ctl, wrport, rdmux, rd_data, mem, enum,
                 sel, ops, bin_val, clr_idx, runs, cyc, visited, snap, nupd, heldDone,
                 prevBin, streakLen, streakBase>>

SetData(d) ==
  /\ Built
  /\ d # data_in
  /\ data_in' = d
  /\ UNCHANGED <<params, start, rd_addr, fsm, ctl, wrport, rdmux, rd_data, mem, enum,
                 sel, ops, bin_val, clr_idx, hist>>

SetRdAddr(a) ==
  /\ Built
  /\ a # rd_addr
  /\ rd_addr' = a
  /\ UNCHANGED <<params, start, data_in, fsm, ctl, wrport, rdmux, rd_data, mem, enum,
                 sel, ops, bin_val, clr_idx, hist>>

\* --------------------------------------------------------- specifications
\* run_case: N >= K nibbles, data_in held, start driven freely
Init ==
  \E k \in {2, 3} : \E n \in k..MaxN : \E nib \in NibbleLists(n) :
    Construct(n, k, SimCW, nib, MaxRuns)

Next ==
  \/ Elaborate
  \/ Tick
  \/ \E s \in {0, 1} : SetStart(s)

Spec == Init /\ [][Next]_vars

\* every configuration __init__ accepts
InitAny ==
  \E k \in {2, 3} : \E n \in 1..MaxN : \E nib \in NibbleLists(n) :
    Construct(n, k, SimCW, nib, MaxRuns)

SpecAny == InitAny /\ [][Next]_vars

\* the unconstrained environment: data_in and rd_addr change at any time; the
\* clock keeps ticking
NextFree ==
  \/ Next
  \/ \E d \in DataVals(N) : SetData(d)
  \/ \E a \in RdAddrVals : SetRdAddr(a)

InitFree ==
  \E k \in {2, 3} : \E n \in k..MaxNFree : \E nib \in FreeLists(n) :
    Construct(n, k, SimCW, nib, MaxRunsFree)

SpecFree == InitFree /\ [][NextFree]_vars /\ WF_vars(Tick)

\* the read-back environment of run_case: data_in held, start driven freely,
\* rd_addr driven to any of the 16 bins at any time
NextRead ==
  \/ Next
  \/ \E a \in ReadAddrs : SetRdAddr(a)

InitRead ==
  \E k \in {2, 3} : \E n \in k..MaxNRead : \E nib \in NibbleLists(n) :
    Construct(n, k, SimCW, nib, MaxRunsRead)

SpecRead == InitRead /\ [][NextRead]_vars

\* run_case on longer words: the enumerator and the operator sweep do not read
\* data_in, so one all-zero word per length is run
InitZero ==
  \E k \in {2, 3} : \E n \in k..MaxNEnum : Construct(n, k, SimCW, ZeroList(n), MaxRunsEnum)

SpecEnum == InitZero /\ [][Next]_vars

\* every two-digit hex string "00".."FF", decoded
AllPairs == [1..2 -> 0..15]

\* run_case on every pair of nibbles (K = 2, so every operand pair meets every
\* operator) and on the three-digit test words (K = 3, the operator chain)
InitOps ==
  \/ \E nib \in AllPairs : Construct(2, 2, SimCW, nib, MaxRunsOps)
  \/ \E nib \in NibbleLists(3) : Construct(3, 3, SimCW, nib, MaxRunsOps)

SpecOps == InitOps /\ [][Next]_vars

\* run_case with a device of narrow counters (count_width = 1..MaxCW), the clock
\* running
InitWrap ==
  \E k \in {2, 3} : \E n \in k..MaxNWrap : \E nib \in NibbleLists(n) :
    \E cw \in 1..MaxCW : Construct(n, k, cw, nib, MaxRunsWrap)

SpecWrap == InitWrap /\ [][Next]_vars /\ WF_vars(Tick)

\* data_in is driven to another word while the run is in progress only: the word
\* present when start is sampled is the test bench's
SetDataBusy(d) == fsm \in BusyStates /\ SetData(d)

NextBusyData ==
  \/ Next
  \/ \E d \in DataVals(N) : SetDataBusy(d)

SpecBusyData == InitFree /\ [][NextBusyData]_vars

\* ------------------------------------------------------------------ claims
OpsPerSubset == IF K = 2 THEN 10 ELSE 100

\* the memory content a run starts from: the previous run's result, or the reset value
PriorHist == IF runs >= 2 THEN snap[runs - 1] ELSE ZeroHist

\* C1: the first run after reset ends in DONE with done = 1 and the histogram RAM
\* equal, bin for bin, to the brute-force reference of the test bench's nibble list.
C1_Equivalence ==
  (fsm = "DONE" /\ runs = 1) => (done = 1 /\ mem = ref(nibbles, K))

C1_Witness ==
  /\ fsm = "DONE" /\ runs = 1 /\ done = 1
  /\ N > K /\ K = 3
  /\ mem = ref(nibbles, K)
  /\ Cardinality({a \in 0..15 : mem[a] > 0}) >= 3

\* C2: a second run on the same data_in leaves the same histogram at its done as
\* the first run left at its done.
C2_IdempotentRestart ==
  Len(snap) >= 2 => snap[2] = snap[1]

\* C3: when the controller enters the first histogram update of a run, the clear
\* phase has set all 16 counters to 0.
C3_ClearedBeforeFirstIncrement ==
  (fsm = "DO_ONE_RESULT" /\ nupd = 0) => \A a \in 0..15 : mem[a] = 0

\* C4: whenever done = 1 the 16 counters sum to C(N,K)*10 (K=2) or C(N,K)*100 (K=3).
C4_Conservation ==
  done = 1 => SumTo(mem, 15) = Binom(N, K) * OpsPerSubset

StrictlyIncreasing(s) == \A i \in 1..(Len(s) - 1) : s[i] < s[i + 1]

\* C5: every configuration the constructor accepts (N in 1..32, K in {2,3}) builds,
\* and the masks of one run are exactly C(N,K) masks of popcount K in strictly
\* increasing order, from (1<<K)-1 to ((1<<K)-1) << (N-K).
C5_Exhaustive ==
  /\ fsm # "ValueError"
  /\ fsm = "DONE" =>
       /\ Len(visited) = Binom(N, K)
       /\ \A i \in 1..Len(visited) : PopCount(visited[i]) = K
       /\ StrictlyIncreasing(visited)
       /\ visited[1] = (2 ^ K) - 1
       /\ visited[Len(visited)] = ((2 ^ K) - 1) * (2 ^ (N - K))

\* a clock edge taken while the run is in progress
BusyTick == cyc' = cyc + 1

\* C6: the clock edge of ADVANCE, which commits the update, raises the counter of
\* the computed result's bin by exactly 1 and leaves the other 15 unchanged; no
\* other edge of the update changes the memory; n consecutive updates of one bin
\* raise it by n.
C6_Hazard ==
  [][/\ (fsm = "ADVANCE" /\ BusyTick) =>
          /\ mem' = [mem EXCEPT ![final_res] = mem[final_res] + 1]
          /\ prevBin' = final_res
          /\ mem'[prevBin'] = streakBase' + streakLen'
     /\ (fsm \in {"DO_ONE_RESULT", "HIST_READ", "HIST_WRITE"}) => mem' = mem]_vars

C6_Witness ==
  /\ fsm = "DO_ONE_RESULT"
  /\ streakLen = 2
  /\ mem[prevBin] = streakBase + 2
  /\ rd_addr # prevBin

\* C7: the last NEXT_SUBSET edge enters DONE with done = 1 and busy = 0; DONE
\* keeps done = 1, busy = 0 and is held while start is high; DONE is left only
\* to IDLE with start low; IDLE is left only with start high, into a new run.
C7_Handshake ==
  [][/\ (fsm = "NEXT_SUBSET" /\ is_last /\ BusyTick) =>
          (fsm' = "DONE" /\ done' = 1 /\ busy' = 0)
     /\ fsm = "DONE" => (done = 1 /\ busy = 0)
     /\ fsm' = "DONE" => (done' = 1 /\ busy' = 0)
     /\ (fsm = "DONE" /\ start = 1) => fsm' = "DONE"
     /\ (fsm = "DONE" /\ fsm' # "DONE") => (start = 0 /\ fsm' = "IDLE")
     /\ (fsm = "IDLE" /\ fsm' # "IDLE") =>
          (start = 1 /\ fsm' = "CLEAR_INIT" /\ runs' = runs + 1)]_vars

C7_Witness ==
  fsm = "CLEAR_INIT" /\ runs = 2 /\ heldDone

\* C8: once start has been sampled high in IDLE (the controller is in CLEAR_INIT),
\* the run reaches DONE with done = 1, whatever start, data_in and rd_addr do.
C8_Termination ==
  (fsm = "CLEAR_INIT") ~> (fsm = "DONE" /\ done = 1)

C8_Witness ==
  /\ fsm = "DONE" /\ done = 1
  /\ startBusy
  /\ data_in # pack_nibbles_le(nibbles)
  /\ rd_addr # 0

\* C9 as stated: busy = 1 in every state from CLEAR_INIT through NEXT_SUBSET.
C9_BusyOnLeavingIdle ==
  fsm \in BusyStates => busy = 1

\* C9 amended: IDLE is left only when start is sampled high; busy is still 0 in
\* CLEAR_INIT and is 1 in every state from CLEAR_STEP through NEXT_SUBSET.
C9_BusyFromClearStep ==
  [][/\ (fsm = "IDLE" /\ fsm' # "IDLE") => start = 1
     /\ fsm' = "CLEAR_INIT" => busy' = 0
     /\ fsm' \in (BusyStates \ {"CLEAR_INIT"}) => busy' = 1]_vars

C9_Witness ==
  fsm = "NEXT_SUBSET" /\ busy = 1 /\ is_last /\ runs = 2

\* clock edges from leaving IDLE to entering DONE
RunCycles == 18 + (Binom(N, K) * (N + 2 + (4 * OpsPerSubset)))

\* C10: start is not sampled between CLEAR_INIT and NEXT_SUBSET: whatever start does
\* there, the run enters DONE after the same number of clock edges with the same
\* histogram, which the data and the memory content before the run determine.
C10_StartIgnoredWhileBusy ==
  fsm = "DONE" =>
     /\ cyc = RunCycles
     /\ mem = [a \in 0..15 |->
                 ref(nibbles, K)[a] + (IF a = 15 THEN PriorHist[15] ELSE 0)]

C10_Witness ==
  fsm = "DONE" /\ startBusy /\ start = 0 /\ cyc = RunCycles

\* a clock edge: the design is built and no input signal changes in the step
ClockEdge == Built /\ inputs' = inputs

\* C11: at every clock edge at which the read mux selects the external address
\* (use_internal_read = 0, as in DONE and in IDLE), rd_data after the edge is the
\* counter of bin rd_addr as the memory holds it after that edge, for every
\* address 0..15 the environment drives.
C11_ExternalRead ==
  [][/\ (ClockEdge /\ use_internal_read = 0) => rd_data' = mem'[rd_addr]
     /\ fsm \in {"IDLE", "DONE"} => use_internal_read = 0]_vars

C11_Witness ==
  /\ fsm = "IDLE" /\ runs = 1
  /\ rd_addr > 0 /\ rd_addr < 15
  /\ rd_data = mem[rd_addr]
  /\ rd_data > 0 /\ rd_data # mem[0] /\ rd_data # mem[int_rd_addr]

\* C12: for every N-bit mask with exactly K bits set other than the terminal
\* mask, next_mask is the smallest N-bit value greater than mask with exactly K
\* bits set (stated where the FSM consumes next_mask; the masks a run holds
\* have exactly K bits set).
C12_GosperSuccessor ==
  /\ fsm \in {"SCAN_SELECT", "DO_ONE_RESULT", "NEXT_SUBSET"} => PopCount(mask) = K
  /\ (fsm = "NEXT_SUBSET" /\ ~is_last) =>
       /\ next_mask > mask
       /\ next_mask < 2 ^ N
       /\ PopCount(next_mask) = K
       /\ \A u \in (mask + 1)..(next_mask - 1) : PopCount(u) # K

C12_Witness ==
  /\ fsm = "NEXT_SUBSET" /\ N = 7 /\ K = 3
  /\ mask = 56 /\ next_mask = 67
  /\ tz = 3 /\ r = 64

\* position of the operator combination in the sweep: op1 for K = 2, row-major
\* (op1 outer, op2 inner) for K = 3
OpIndex == IF K = 2 THEN op1 ELSE (10 * op1) + op2

\* C13: every subset gets exactly 10 (K=2) or 100 (K=3) histogram updates, the
\* i-th of them with the i-th operator combination in the order op1 = 0..9
\* (K=2) or (op1,op2) row-major (K=3); NEXT_SUBSET is entered only after the last
\* combination, and the run ends after C(N,K) full sweeps.
C13_OperatorSweep ==
  /\ fsm \in {"DO_ONE_RESULT", "HIST_READ", "HIST_WRITE", "ADVANCE"} =>
       /\ op1 \in 0..9 /\ op2 \in 0..9
       /\ K = 2 => op2 = 0
       /\ nupd = ((Len(visited) - 1) * OpsPerSubset) + OpIndex
  /\ fsm = "NEXT_SUBSET" =>
       /\ OpIndex = OpsPerSubset - 1
       /\ nupd = Len(visited) * OpsPerSubset
  /\ fsm = "DONE" => nupd = Binom(N, K) * OpsPerSubset

C13_Witness ==
  /\ fsm = "NEXT_SUBSET" /\ K = 3 /\ runs = 2
  /\ Len(visited) = 2 /\ nupd = 200
  /\ op1 = 9 /\ op2 = 9

\* the positions of the set bits of m, lowest first, counted from position i
RECURSIVE SetBits(_, _)
SetBits(m, i) ==
  IF m = 0 THEN <<>>
  ELSE (IF m % 2 = 1 THEN <<i>> ELSE <<>>) \o SetBits(m \div 2, i + 1)

\* C14: in DO_ONE_RESULT (data_in held during the run) sel_count = K and sel0,
\* sel1 (and sel2 for K=3) are the nibbles of data_in at the set positions of the
\* current mask, lowest position in sel0; these are the test bench's nibbles at
\* those positions, so nothing of an earlier mask is left in a used register.
C14_Selection ==
  fsm = "DO_ONE_RESULT" =>
    LET pos == SetBits(mask, 0) IN
      /\ sel_count = K /\ Len(pos) = K
      /\ sel0 = nibbles_slice(pos[1]) /\ sel0 = nibbles[pos[1] + 1]
      /\ sel1 = nibbles_slice(pos[2]) /\ sel1 = nibbles[pos[2] + 1]
      /\ K = 3 => (sel2 = nibbles_slice(pos[3]) /\ sel2 = nibbles[pos[3] + 1])

C14_Witness ==
  /\ fsm = "DO_ONE_RESULT" /\ K = 3 /\ N = 4
  /\ mask = 13 /\ sel_count = 3
  /\ sel0 = 3 /\ sel1 = 1 /\ sel2 = 10
  /\ op1 = 5

\* the value the reference bins for the selected nibbles and operator ids
TableResult ==
  IF K = 2 THEN PyOp(op1, sel0, sel1) ELSE PyOp(op2, PyOp(op1, sel0, sel1), sel2)

\* C15: for every operator id 0..9 and all operands the combinational result of
\* the operator network equals the table formula truncated to 4 bits and lies
\* in 0..15; the value sampled in DO_ONE_RESULT, and binned, is
\* apply(op1, sel0, sel1) for K=2 and apply(op2, apply(op1, sel0, sel1), sel2)
\* for K=3.
C15_OperatorNetwork ==
  /\ fsm = "DO_ONE_RESULT" =>
       /\ t1 = PyOp(op1, sel0, sel1)
       /\ t1 \in 0..15 /\ t2 \in 0..15
       /\ final_res = TableResult
  /\ fsm \in {"HIST_READ", "HIST_WRITE"} =>
       (bin_val = TableResult /\ int_rd_addr = TableResult)
  /\ fsm = "ADVANCE" => (wr_en = 1 /\ wr_addr = TableResult)

C15_Witness ==
  /\ fsm = "ADVANCE" /\ K = 2
  /\ sel0 = 12 /\ sel1 = 10 /\ op1 = OP_IMPLY
  /\ wr_addr = 11 /\ wr_en = 1

\* the Default branch of the operator switch is the one taken for op_sel
DefaultTaken(op_sel) ==
  op_sel \notin {OP_AND, OP_OR, OP_IMPLY, OP_CONV, OP_XOR, OP_XNOR, OP_NAND, OP_NOR,
                 OP_NIMPLY, OP_INV}

\* C16: the 4-bit operator counters op1 and op2 stay in 0..9 in every reachable
\* state, so whenever a result is sampled (DO_ONE_RESULT) neither operator
\* switch takes its Default (XOR) branch.
C16_OperatorIdsValid ==
  /\ op1 \in 0..9 /\ op2 \in 0..9
  /\ fsm = "DO_ONE_RESULT" => (~DefaultTaken(op1) /\ ~DefaultTaken(op2))

C16_Witness ==
  /\ fsm = "DO_ONE_RESULT" /\ K = 3 /\ runs = 2
  /\ op1 = 9 /\ op2 = 9 /\ ~is_last

\* C17: every increment writes (old counter + 1) mod 2^CW; the counters stay
\* within CW bits; the first run ends with every bin holding its event count
\* modulo 2^CW; and a started run reaches DONE with done = 1, overflow or not.
C17_SilentWrap ==
  /\ [][/\ (fsm = "HIST_WRITE" /\ BusyTick) =>
             (wr_en' = 1 /\ wr_data' = (mem[bin_val] + 1) % (2 ^ CW))
        /\ \A a \in 0..15 : mem'[a] \in 0..((2 ^ CW) - 1)
        /\ (fsm' = "DONE" /\ runs' = 1) =>
             \A a \in 0..15 : mem'[a] = ref(nibbles, K)[a] % (2 ^ CW)]_vars
  /\ ((fsm = "CLEAR_INIT") ~> (fsm = "DONE" /\ done = 1))

C17_Witness ==
  /\ fsm = "DONE" /\ done = 1 /\ runs = 1 /\ CW = 2
  /\ \E a \in 0..15 :
       /\ ref(nibbles, K)[a] >= 2 ^ CW
       /\ mem[a] = ref(nibbles, K)[a] % (2 ^ CW)
       /\ mem[a] > 0

\* C18: the selections of a run are drawn from the data_in present when start
\* was sampled: whatever data_in does during the busy phase, the first run ends
\* with the histogram of the nibble list that was on data_in at its start.
C18_DataImmutable ==
  (fsm = "DONE" /\ runs = 1) => mem = ref(nibbles, K)

\* C19: no clock edge taken in DONE or IDLE changes a counter; the edge that
\* raises done changes none either (the last increment was committed by the
\* ADVANCE edge before it); and wr_en is 0 in DONE, in IDLE and up to the first
\* CLEAR_STEP edge of the next run, which is the first to raise it again.
C19_StableOutsideRun ==
  [][/\ fsm \in {"DONE", "IDLE", "CLEAR_INIT"} => (wr_en = 0 /\ mem' = mem)
     /\ (done = 0 /\ done' = 1) => (fsm = "NEXT_SUBSET" /\ wr_en = 0 /\ mem' = mem)
     /\ (fsm \in {"DONE", "IDLE"} /\ runs >= 1) => mem = snap[runs]
     /\ (wr_en = 0 /\ wr_en' = 1 /\ fsm = "CLEAR_STEP") => (clr_idx = 0 /\ mem' = mem)
     /\ fsm' \in {"DONE", "IDLE", "CLEAR_INIT"} => wr_en' = 0]_vars

C19_Witness ==
  /\ fsm = "CLEAR_STEP" /\ runs = 2 /\ clr_idx = 0
  /\ wr_en = 0
  /\ mem = snap[1] /\ mem # ZeroHist

\* C20: at the HIST_READ edge the read mux selects the internal address, which
\* is the bin of the current result, so the word latched for the update is that
\* bin's counter whatever rd_addr is; the run ends with the histogram that the
\* data and the memory before the run determine, whatever rd_addr did.
C20_ReadAddrIsolated ==
  /\ fsm = "HIST_READ" =>
       /\ use_internal_read = 1
       /\ rd_port_addr = final_res /\ rd_port_addr = bin_val
  /\ fsm = "HIST_WRITE" => rd_data = mem[bin_val]
  /\ fsm = "DONE" =>
       LET h == ref(nibbles, K) IN
         mem = [h EXCEPT ![15] = h[15] + PriorHist[15]]

C20_Witness ==
  /\ fsm = "HIST_WRITE" /\ nupd > 0
  /\ rd_addr # 0 /\ rd_addr # bin_val
  /\ rd_data = mem[bin_val]
  /\ mem[rd_addr] # mem[bin_val]

====
